---- MODULE Spec2Model ----
(***************************************************************************)
(* Verification model of the brinkadata-platform authorization engine:     *)
(* the capability catalog (backend/authz.py, backend/rbac.py), the         *)
(* subscription resolver (backend/entitlements.py), the request gate       *)
(* (backend/auth_context.py, backend/dependencies.py), the tenant guards   *)
(* (backend/tenant.py) and the account, subscription and saved-property    *)
(* tables written by backend/main.py.                                      *)
(*                                                                         *)
(* Wall-clock columns (created_at, updated_at, current_period_start/end)   *)
(* and the provider id columns are never read by the modelled decisions    *)
(* and are left out of the rows.                                           *)
(***************************************************************************)
EXTENDS Integers, FiniteSets, Sequences, TLC

VARIABLES
    env,            \* config.ENV, read once at process start
    accounts,       \* table accounts: set of rows [id, plan, owner_id]
    users,          \* table users: set of rows [id, email, role, account_id, is_active]
    subscriptions,  \* table subscriptions (committed image): set of rows
    txn,            \* per long-lived connection: its uncommitted image of subscriptions, or NoTxn
    resp,           \* the operation that ran last: its call, its result, and for an
                    \* UPDATE the row it found
    saved_properties,  \* table saved_properties: set of rows, id is the rowid
    requests,       \* per request worker: where the request it is serving stands
    trashed_properties,  \* table trashed_properties: set of rows [trash_id, saved_row_json, account_id]
    sqlite_sequence,     \* table sqlite_sequence: the last AUTOINCREMENT id handed out per table
    auth_sessions,  \* table auth_sessions: set of rows
    resume_codes,   \* table resume_codes: set of rows
    issued_tokens   \* the token responses /auth/resume has sent to clients

vars == <<env, accounts, users, subscriptions, txn, resp, saved_properties, requests,
          trashed_properties, sqlite_sequence, auth_sessions, resume_codes,
          issued_tokens>>

----------------------------------------------------------------------------
(* Bounds of the model *)

\* how many accounts /auth/register may create
MaxAccounts == 2

\* long-lived connections handed to the entitlements helpers
Conns == {"c1", "c2"}

\* how many /property/save requests the server handles at the same time
MaxWorkers == 2

Workers == 1..MaxWorkers

\* a worker with no request in hand
Idle == [pc |-> "idle"]

----------------------------------------------------------------------------
(* Python values *)

\* Python None (also SQL NULL)
None == "<None>"

\* None where the value would be a row or an object; an absent integer is 0
NoneObj == [is_none |-> TRUE]

\* Python truthiness of a str-or-None value
Truthy(x) == x # None /\ x # ""

\* x or d
Or(x, d) == IF Truthy(x) THEN x ELSE d

\* str.lower() on the names the model feeds in
lower(s) ==
    CASE s = "PRO" -> "pro"
      [] s = "Free" -> "free"
      [] s = "OWNER" -> "owner"
      [] s = "Read_Only" -> "read_only"
      [] OTHER -> s

\* dict.get(key, default)
dict_get(d, key, default) == IF key \in DOMAIN d THEN d[key] ELSE default

\* SQL COALESCE(x, d)
COALESCE(x, d) == IF x = None THEN d ELSE x

----------------------------------------------------------------------------
(* backend/authz.py: capability catalog *)

PROJECT_CREATE == "project:create"
PROJECT_VIEW == "project:view"
ASSET_MANAGE == "asset:manage"
ASSET_VIEW == "asset:view"
SEARCH_BASIC == "search:basic"
SEARCH_ADVANCED == "search:advanced"
ANALYSIS_SINGLE_PROPERTY == "analysis:single_property"
ANALYSIS_PORTFOLIO == "analysis:portfolio"
EXPORT_CSV == "export:csv"

Capability ==
    {PROJECT_CREATE, PROJECT_VIEW, ASSET_MANAGE, ASSET_VIEW, SEARCH_BASIC,
     SEARCH_ADVANCED, ANALYSIS_SINGLE_PROPERTY, ANALYSIS_PORTFOLIO, EXPORT_CSV}

FreeCaps == {PROJECT_VIEW, ASSET_VIEW, SEARCH_BASIC, ANALYSIS_SINGLE_PROPERTY}

PLAN_CAPABILITIES ==
    [p \in {"free", "pro", "team", "enterprise"} |->
        IF p = "free" THEN FreeCaps ELSE Capability]

has_capability(account_plan, capability) ==
    LET plan == IF Truthy(account_plan) THEN lower(account_plan) ELSE ""
        plan_caps == dict_get(PLAN_CAPABILITIES, plan, {})
    IN  capability \in plan_caps

----------------------------------------------------------------------------
(* backend/rbac.py: role overlay *)

ROLE_CAPABILITIES_leaky ==
    [r \in {"owner", "admin", "member", "read_only"} |->
        IF r = "read_only"
        THEN {PROJECT_VIEW, ASSET_VIEW, SEARCH_BASIC, ANALYSIS_SINGLE_PROPERTY, EXPORT_CSV}
        ELSE Capability]

ROLE_CAPABILITIES ==
    [r \in {"owner", "admin", "member", "read_only"} |->
        IF r = "read_only"
        THEN {PROJECT_VIEW, ASSET_VIEW, SEARCH_BASIC, ANALYSIS_SINGLE_PROPERTY}
        ELSE Capability]

effective_capabilities_union(plan, role) ==
    LET plan_lower == IF Truthy(plan) THEN lower(plan) ELSE ""
        role_lower == IF Truthy(role) THEN lower(role) ELSE ""
        plan_caps == dict_get(PLAN_CAPABILITIES, plan_lower, {})
        role_caps == dict_get(ROLE_CAPABILITIES, role_lower, {})
    IN  plan_caps \cup role_caps

effective_capabilities(plan, role) ==
    LET plan_lower == IF Truthy(plan) THEN lower(plan) ELSE ""
        role_lower == IF Truthy(role) THEN lower(role) ELSE ""
        plan_caps == dict_get(PLAN_CAPABILITIES, plan_lower, {})
        role_caps == dict_get(ROLE_CAPABILITIES, role_lower, {})
    IN  plan_caps \cap role_caps

has_effective_capability_plan_only(plan, role, capability) ==
    capability \in dict_get(PLAN_CAPABILITIES, IF Truthy(plan) THEN lower(plan) ELSE "", {})

has_effective_capability(plan, role, capability) ==
    capability \in effective_capabilities(plan, role)

----------------------------------------------------------------------------
(* backend/models.py, backend/config.py: closed token sets *)

UserRole == {"owner", "admin", "member", "read_only", "affiliate"}

PlanName == {"free", "pro", "team", "enterprise"}

valid_statuses == {"trialing", "active", "past_due", "canceled"}

Envs == {"dev", "staging", "prod"}

IS_DEV_unless_prod == env # "prod"

IS_DEV == env = "dev"

----------------------------------------------------------------------------
(* backend/entitlements.py: subscription resolver *)

\* the Subscription dataclass, built field by field
Subscription(id, account_id, status, plan_name, provider) ==
    [id |-> id, account_id |-> account_id, status |-> status,
     plan_name |-> plan_name, provider |-> provider]

is_active(subscription) == subscription.status \in {"active", "trialing"}

is_past_due(subscription) == subscription.status = "past_due"

is_canceled(subscription) == subscription.status = "canceled"

\* SELECT ... FROM subscriptions WHERE account_id = ? LIMIT 1
select_subscription(rows, account_id) ==
    LET hit == {r \in rows : r.account_id = account_id}
    IN  IF hit = {} THEN NoneObj ELSE CHOOSE r \in hit : TRUE

get_subscription_no_fallback(rows, account_id) ==
    LET row == select_subscription(rows, account_id)
    IN  IF row # NoneObj
        THEN Subscription(row.id, row.account_id, Or(row.status, "active"),
                          Or(row.plan_name, "free"), Or(row.provider, "manual"))
        ELSE NoneObj

get_subscription_any_row(rows, account_id) ==
    LET row == IF rows = {} THEN NoneObj ELSE CHOOSE r \in rows : TRUE
    IN  IF row # NoneObj
        THEN Subscription(row.id, row.account_id, Or(row.status, "active"),
                          Or(row.plan_name, "free"), Or(row.provider, "manual"))
        ELSE Subscription(0, account_id, "active", "free", "manual")

get_subscription(rows, account_id) ==
    LET row == select_subscription(rows, account_id)
    IN  IF row # NoneObj
        THEN Subscription(row.id, row.account_id, Or(row.status, "active"),
                          Or(row.plan_name, "free"), Or(row.provider, "manual"))
        ELSE Subscription(0, account_id, "active", "free", "manual")

get_effective_plan_keep(subscription) == subscription.plan_name

get_effective_plan(subscription) ==
    IF is_active(subscription) THEN subscription.plan_name ELSE "free"

get_entitlements(role, subscription) ==
    effective_capabilities(get_effective_plan(subscription), role)

has_entitlement(role, subscription, capability) ==
    capability \in get_entitlements(role, subscription)

----------------------------------------------------------------------------
(* backend/auth_context.py, backend/dependencies.py: the request gate *)

Ok(ctx) == [code |-> 200, ctx |-> ctx]

HTTPException(status_code) == [code |-> status_code]

\* lines 218-234: the AuthContext computed from the user row and the subscription
AuthContext(user_row, user_role, subscription) ==
    [user_id |-> user_row.id,
     account_id |-> user_row.account_id,
     role |-> user_role,
     email |-> user_row.email,
     subscription_status |-> subscription.status,
     subscription_plan |-> subscription.plan_name,
     effective_plan |-> get_effective_plan(subscription),
     capabilities |-> get_entitlements(user_role, subscription)]

\* a bearer token: whether jwt.decode accepts it, and the "sub" of its payload
Token(user_id) == [valid |-> TRUE, sub |-> user_id]

InvalidToken == [valid |-> FALSE, sub |-> 0]

require_auth_context(user_rows, sub_rows, token) ==
    IF ~token.valid THEN HTTPException(401)
    ELSE IF token.sub = 0 THEN HTTPException(401)
    ELSE LET hit == {u \in user_rows : u.id = token.sub}
         IN  IF hit = {} THEN HTTPException(401)
             ELSE LET user_row == CHOOSE u \in hit : TRUE
                  IN  IF ~user_row.is_active THEN HTTPException(403)
                      ELSE IF user_row.account_id = 0
                      THEN HTTPException(403)
                      ELSE LET user_role == Or(user_row.role, "member")
                               subscription == get_subscription(sub_rows, user_row.account_id)
                           IN  Ok(AuthContext(user_row, user_role, subscription))

check_capability_always_403(ctx, capability) ==
    IF capability \notin ctx.capabilities
    THEN HTTPException(403)
    ELSE Ok(ctx)

check_capability(ctx, capability) ==
    IF capability \notin ctx.capabilities
    THEN IF ctx.subscription_status = "past_due"
         THEN HTTPException(402)
         ELSE HTTPException(403)
    ELSE Ok(ctx)

----------------------------------------------------------------------------
(* SQLite tables and connections *)

\* a connection with no open transaction
NoTxn == [open |-> FALSE, image |-> {}]

\* what a SELECT on connection c sees of the subscriptions table
View(c) == IF txn[c].open THEN txn[c].image ELSE subscriptions

conn_commit_missing(c, image) ==
    /\ subscriptions' = subscriptions
    /\ txn' = [txn EXCEPT ![c] = [open |-> TRUE, image |-> image]]

\* conn.commit(): the connection's image becomes the committed table
conn_commit(c, image) ==
    /\ subscriptions' = image
    /\ txn' = [txn EXCEPT ![c] = NoTxn]

\* cur.rowcount of an UPDATE ... WHERE account_id = ?
rowcount(rows, account_id) == Cardinality({r \in rows : r.account_id = account_id})

sql_update_status_and_plan(rows, account_id, status) ==
    {IF r.account_id = account_id
        THEN [r EXCEPT !.status = status, !.plan_name = "free"]
        ELSE r : r \in rows}

\* UPDATE subscriptions SET status = ? WHERE account_id = ?
sql_update_status(rows, account_id, status) ==
    {IF r.account_id = account_id THEN [r EXCEPT !.status = status] ELSE r : r \in rows}

sql_update_plan_only(rows, account_id, plan_name) ==
    {IF r.account_id = account_id
        THEN [r EXCEPT !.plan_name = plan_name]
        ELSE r : r \in rows}

\* UPDATE subscriptions SET plan_name = ?, status = 'active' WHERE account_id = ?
sql_update_plan(rows, account_id, plan_name) ==
    {IF r.account_id = account_id
        THEN [r EXCEPT !.plan_name = plan_name, !.status = "active"]
        ELSE r : r \in rows}

\* the next AUTOINCREMENT id of a table
next_id(rows) == Cardinality(rows) + 1

RECURSIVE insert_defaults(_, _)
\* one default row per account of todo, in account order
insert_defaults(rows, todo) ==
    IF todo = {} THEN rows
    ELSE LET a == CHOOSE x \in todo : \A y \in todo : x.id <= y.id
             row == [id |-> next_id(rows), account_id |-> a.id, plan_id |-> 0,
                     status |-> "active", plan_name |-> COALESCE(a.plan, "free"),
                     provider |-> "manual"]
         IN  insert_defaults(rows \cup {row}, todo \ {a})

backfill_subscriptions_unguarded(rows, accts) == insert_defaults(rows, accts)

\* INSERT OR IGNORE INTO subscriptions ... SELECT ... FROM accounts a WHERE NOT EXISTS (...),
\* under the unique index idx_subscriptions_account_unique
backfill_subscriptions(rows, accts) ==
    insert_defaults(rows, {a \in accts : ~\E s \in rows : s.account_id = a.id})

----------------------------------------------------------------------------
(* Inputs *)

AccountIds == 1..MaxAccounts

UserIds == 1..MaxAccounts

\* E-mail addresses are opaque to the code: address i names the i-th distinct
\* address ever registered, so a request carries a registered address or the
\* next new one, typed in lower case or with capitals and blanks.
RawEmails(user_rows) ==
    {<<i, form>> : i \in 1..(IF Cardinality(user_rows) < MaxAccounts
                                THEN Cardinality(user_rows) + 1
                                ELSE MaxAccounts),
                   form \in {"lower", "Mixed "}}

\* raw_email.strip().lower()
email_norm(raw_email) == <<raw_email[1], "lower">>

StorePlans == {"free", "pro"}

StoreRoles == {"owner", "read_only"}

GateCaps == {ASSET_MANAGE, "assets:read"}

Tokens == {Token(u) : u \in UserIds} \cup {InvalidToken}

\* what a request to an /admin endpoint may carry: no valid token, or the token of
\* the first user
AdminTokens == {InvalidToken, Token(1)}

PlanInputs == PlanName \cup {"PRO", "gold", "", None}

RoleInputs == UserRole \cup {"OWNER", "Read_Only", "", None}

StatusInputs == valid_statuses \cup {"paused"}

CapInputs == Capability \cup {"assets:read"}

----------------------------------------------------------------------------
(* Initial state: the database init_db() leaves on first start *)

Init ==
    /\ env \in Envs
    /\ accounts = {}
    /\ users = {}
    /\ subscriptions = {}
    /\ txn = [c \in Conns |-> NoTxn]
    /\ resp = [op |-> "start"]
    /\ saved_properties = {}
    /\ requests = [w \in Workers |-> Idle]
    /\ trashed_properties = {}
    /\ sqlite_sequence = [trashed_properties |-> 0]
    /\ auth_sessions = {}
    /\ resume_codes = {}
    /\ issued_tokens = {}

----------------------------------------------------------------------------
(* backend/main.py: start-up and endpoints *)

\* process restart: init_db() runs again on the existing database
init_db ==
    /\ subscriptions' = backfill_subscriptions(subscriptions, accounts)
    /\ resp' = [op |-> "init_db"]
    /\ UNCHANGED <<trashed_properties, sqlite_sequence, auth_sessions, resume_codes, issued_tokens, saved_properties, requests, env, accounts, users, txn>>

register(raw_email) ==
    LET email == email_norm(raw_email)
        account_id == next_id(accounts)
        user_id == next_id(users)
    IN  IF \E u \in users : u.email = email
        THEN \* IntegrityError: the connection is closed uncommitted
             /\ resp' = [op |-> "register", email |-> email, result |-> HTTPException(400)]
             /\ UNCHANGED <<trashed_properties, sqlite_sequence, auth_sessions, resume_codes, issued_tokens, saved_properties, requests, env, accounts, users, subscriptions, txn>>
        ELSE /\ accounts' = accounts \cup
                    {[id |-> account_id, plan |-> "free", owner_id |-> user_id]}
             /\ users' = users \cup
                    {[id |-> user_id, email |-> email, role |-> "owner",
                      account_id |-> account_id, is_active |-> TRUE]}
             /\ resp' = [op |-> "register", email |-> email,
                         result |-> [code |-> 200, user_id |-> user_id,
                                     account_id |-> account_id]]
             /\ UNCHANGED <<trashed_properties, sqlite_sequence, auth_sessions, resume_codes, issued_tokens, saved_properties, requests, env, subscriptions, txn>>

\* authorization is the bearer token of the request; the route declares no
\* dependency that reads it
admin_set_plan(authorization, account_id, plan) ==
    LET answer(r) == resp' = [op |-> "admin_set_plan", authorization |-> authorization,
                              account_id |-> account_id, plan |-> plan, result |-> r]
    IN  IF ~IS_DEV
        THEN answer(HTTPException(403)) /\ UNCHANGED <<trashed_properties, sqlite_sequence, auth_sessions, resume_codes, issued_tokens, saved_properties, requests, env, accounts, users, subscriptions, txn>>
        ELSE IF plan \notin PlanName
        THEN answer(HTTPException(400)) /\ UNCHANGED <<trashed_properties, sqlite_sequence, auth_sessions, resume_codes, issued_tokens, saved_properties, requests, env, accounts, users, subscriptions, txn>>
        ELSE IF rowcount(subscriptions, account_id) = 0
        THEN answer(HTTPException(404)) /\ UNCHANGED <<trashed_properties, sqlite_sequence, auth_sessions, resume_codes, issued_tokens, saved_properties, requests, env, accounts, users, subscriptions, txn>>
        ELSE /\ subscriptions' = sql_update_plan(subscriptions, account_id, plan)
             /\ accounts' = {IF a.id = account_id THEN [a EXCEPT !.plan = plan] ELSE a
                                : a \in accounts}
             /\ answer([code |-> 200])
             /\ UNCHANGED <<trashed_properties, sqlite_sequence, auth_sessions, resume_codes, issued_tokens, saved_properties, requests, env, users, txn>>

\* authorization is the bearer token of the request; the route declares no
\* dependency that reads it
admin_set_role(authorization, user_id, role) ==
    LET answer(r) == resp' = [op |-> "admin_set_role", authorization |-> authorization,
                              user_id |-> user_id, role |-> role, result |-> r]
    IN  IF ~IS_DEV
        THEN answer(HTTPException(403)) /\ UNCHANGED <<trashed_properties, sqlite_sequence, auth_sessions, resume_codes, issued_tokens, saved_properties, requests, env, accounts, users, subscriptions, txn>>
        ELSE IF role \notin UserRole
        THEN answer(HTTPException(400)) /\ UNCHANGED <<trashed_properties, sqlite_sequence, auth_sessions, resume_codes, issued_tokens, saved_properties, requests, env, accounts, users, subscriptions, txn>>
        ELSE IF ~\E u \in users : u.id = user_id
        THEN answer(HTTPException(404)) /\ UNCHANGED <<trashed_properties, sqlite_sequence, auth_sessions, resume_codes, issued_tokens, saved_properties, requests, env, accounts, users, subscriptions, txn>>
        ELSE /\ users' = {IF u.id = user_id THEN [u EXCEPT !.role = role] ELSE u : u \in users}
             /\ answer([code |-> 200])
             /\ UNCHANGED <<trashed_properties, sqlite_sequence, auth_sessions, resume_codes, issued_tokens, saved_properties, requests, env, accounts, subscriptions, txn>>

admin_set_subscription_status(account_id, status) ==
    LET answer(r) == resp' = [op |-> "admin_set_subscription_status",
                              account_id |-> account_id, status |-> status, result |-> r]
    IN  IF ~IS_DEV
        THEN answer(HTTPException(403)) /\ UNCHANGED <<trashed_properties, sqlite_sequence, auth_sessions, resume_codes, issued_tokens, saved_properties, requests, env, accounts, users, subscriptions, txn>>
        ELSE IF status \notin valid_statuses
        THEN answer(HTTPException(400)) /\ UNCHANGED <<trashed_properties, sqlite_sequence, auth_sessions, resume_codes, issued_tokens, saved_properties, requests, env, accounts, users, subscriptions, txn>>
        ELSE IF rowcount(subscriptions, account_id) = 0
        THEN answer(HTTPException(404)) /\ UNCHANGED <<trashed_properties, sqlite_sequence, auth_sessions, resume_codes, issued_tokens, saved_properties, requests, env, accounts, users, subscriptions, txn>>
        ELSE /\ subscriptions' = sql_update_status(subscriptions, account_id, status)
             /\ answer([code |-> 200])
             /\ UNCHANGED <<trashed_properties, sqlite_sequence, auth_sessions, resume_codes, issued_tokens, saved_properties, requests, env, accounts, users, txn>>

\* a request to an endpoint behind Depends(require_capability(capability))
gated_request(token, capability) ==
    LET auth == require_auth_context(users, subscriptions, token)
    IN  /\ resp' = [op |-> "request", token |-> token, capability |-> capability,
                    result |-> IF auth.code # 200 THEN auth
                               ELSE check_capability(auth.ctx, capability)]
        /\ UNCHANGED <<trashed_properties, sqlite_sequence, auth_sessions, resume_codes, issued_tokens, saved_properties, requests, env, accounts, users, subscriptions, txn>>

\* GET /auth/capabilities (alias /account/capabilities)
get_account_capabilities(token) ==
    LET auth == require_auth_context(users, subscriptions, token)
        answer(r) == resp' = [op |-> "get_account_capabilities", token |-> token,
                              result |-> r]
    IN  /\ UNCHANGED <<trashed_properties, sqlite_sequence, auth_sessions, resume_codes, issued_tokens, saved_properties, requests, env, accounts, users, subscriptions, txn>>
        /\ IF auth.code # 200 THEN answer(auth)
           ELSE LET hit == {a \in accounts : a.id = auth.ctx.account_id}
                IN  IF hit = {} THEN answer(HTTPException(500))
                    ELSE LET account_row == CHOOSE a \in hit : TRUE
                             account_plan == Or(account_row.plan, "free")
                             user_role == auth.ctx.role
                             caps == effective_capabilities(account_plan, user_role)
                         IN  answer([code |-> 200, plan |-> account_plan,
                                     role |-> user_role, capabilities |-> caps])

\* the columns of the accounts table after init_db
accounts_columns ==
    {"id", "name", "owner_id", "created_at", "plan", "stripe_customer_id",
     "stripe_subscription_id"}

\* backend/features.py: the query names a.plan_name; sqlite3 raises
\* OperationalError for a column the table does not have, and the function
\* swallows every exception
get_account_plan(account_rows, sub_rows, account_id) ==
    IF "plan_name" \notin accounts_columns THEN "free"
    ELSE LET hit == {a \in account_rows : a.id = account_id}
             joined == {s \in sub_rows : s.account_id = account_id
                                            /\ s.status \in {"active", "trialing"}}
         IN  IF hit = {} THEN "free"
             ELSE IF joined # {} THEN lower((CHOOSE s \in joined : TRUE).plan_name)
             ELSE lower(COALESCE((CHOOSE a \in hit : TRUE).plan_name, "free"))

call_get_account_plan(account_id) ==
    /\ resp' = [op |-> "get_account_plan", account_id |-> account_id,
                result |-> get_account_plan(accounts, subscriptions, account_id)]
    /\ UNCHANGED <<trashed_properties, sqlite_sequence, auth_sessions, resume_codes, issued_tokens, saved_properties, requests, env, accounts, users, subscriptions, txn>>

----------------------------------------------------------------------------
(* backend/entitlements.py called on a caller's connection *)

update_subscription_status(c, account_id, status) ==
    /\ conn_commit(c, sql_update_status(View(c), account_id, status))
    /\ resp' = [op |-> "update_subscription_status",
                account_id |-> account_id, status |-> status,
                prior |-> select_subscription(View(c), account_id)]
    /\ UNCHANGED <<trashed_properties, sqlite_sequence, auth_sessions, resume_codes, issued_tokens, saved_properties, requests, env, accounts, users>>

update_subscription_plan(c, account_id, plan_name) ==
    /\ conn_commit(c, sql_update_plan(View(c), account_id, plan_name))
    /\ resp' = [op |-> "update_subscription_plan",
                account_id |-> account_id, plan_name |-> plan_name,
                prior |-> select_subscription(View(c), account_id)]
    /\ UNCHANGED <<trashed_properties, sqlite_sequence, auth_sessions, resume_codes, issued_tokens, saved_properties, requests, env, accounts, users>>

call_get_subscription(c, account_id) ==
    /\ resp' = [op |-> "get_subscription", account_id |-> account_id,
                result |-> get_subscription(View(c), account_id)]
    /\ UNCHANGED <<trashed_properties, sqlite_sequence, auth_sessions, resume_codes, issued_tokens, saved_properties, requests, env, accounts, users, subscriptions, txn>>

\* the HTTP API: start-up, registration, the dev admin endpoints and gated requests
Next ==
    \/ init_db
    \/ \E e \in RawEmails(users) : register(e)
    \/ \E a \in AccountIds, p \in StorePlans \cup {"PRO"} :
            admin_set_plan(InvalidToken, a, p)
    \/ \E u \in UserIds, r \in StoreRoles \cup {"root"} :
            admin_set_role(InvalidToken, u, r)
    \/ \E a \in AccountIds, s \in StatusInputs : admin_set_subscription_status(a, s)
    \/ \E t \in Tokens, cap \in GateCaps : gated_request(t, cap)

Spec == Init /\ [][Next]_vars

\* The development endpoints called with and without a bearer token, and the
\* introspection endpoint.
AdminNext ==
    \/ init_db
    \/ \E e \in RawEmails(users) : register(e)
    \/ \E t \in AdminTokens, a \in AccountIds, p \in StorePlans \cup {"PRO"} :
            admin_set_plan(t, a, p)
    \/ \E t \in AdminTokens, u \in UserIds, r \in StoreRoles \cup {"root"} :
            admin_set_role(t, u, r)
    \/ \E a \in AccountIds, st \in {"active", "past_due", "paused"} :
            admin_set_subscription_status(a, st)
    \/ \E t \in Tokens : get_account_capabilities(t)
    \/ \E a \in AccountIds : call_get_account_plan(a)

AdminSpec == Init /\ [][AdminNext]_vars

\* the entitlements helpers as a billing integration calls them, beside
\* registration and start-up
LibNext ==
    \/ init_db
    \/ \E e \in RawEmails(users) : register(e)
    \/ \E c \in Conns, a \in AccountIds, s \in valid_statuses :
            update_subscription_status(c, a, s)
    \/ \E c \in Conns, a \in AccountIds, p \in StorePlans :
            update_subscription_plan(c, a, p)
    \/ \E c \in Conns, a \in AccountIds : call_get_subscription(c, a)

LibSpec == Init /\ [][LibNext]_vars

----------------------------------------------------------------------------
(* The pure decision functions applied to drawn inputs *)

call_effective_capabilities(plan, role) ==
    /\ resp' = [op |-> "effective_capabilities", plan |-> plan, role |-> role,
                result |-> effective_capabilities(plan, role)]
    /\ UNCHANGED <<trashed_properties, sqlite_sequence, auth_sessions, resume_codes, issued_tokens, saved_properties, requests, env, accounts, users, subscriptions, txn>>

call_get_effective_plan(status, plan_name) ==
    /\ resp' = [op |-> "get_effective_plan", status |-> status, plan_name |-> plan_name,
                result |-> get_effective_plan(Subscription(1, 1, status, plan_name, "manual"))]
    /\ UNCHANGED <<trashed_properties, sqlite_sequence, auth_sessions, resume_codes, issued_tokens, saved_properties, requests, env, accounts, users, subscriptions, txn>>

call_get_entitlements(role, status, plan_name) ==
    /\ resp' = [op |-> "get_entitlements", role |-> role, status |-> status,
                plan_name |-> plan_name,
                result |-> get_entitlements(role, Subscription(1, 1, status, plan_name, "manual"))]
    /\ UNCHANGED <<trashed_properties, sqlite_sequence, auth_sessions, resume_codes, issued_tokens, saved_properties, requests, env, accounts, users, subscriptions, txn>>

\* the gate on a caller of the given role whose account holds the given subscription
call_authorize(role, status, plan_name, capability) ==
    LET user_row == [id |-> 1, email |-> <<1, "lower">>, role |-> role,
                     account_id |-> 1, is_active |-> TRUE]
        subscription == Subscription(1, 1, status, plan_name, "manual")
        ctx == AuthContext(user_row, role, subscription)
    IN  /\ resp' = [op |-> "authorize", role |-> role, status |-> status,
                    plan_name |-> plan_name, capability |-> capability,
                    result |-> check_capability(ctx, capability)]
        /\ UNCHANGED <<trashed_properties, sqlite_sequence, auth_sessions, resume_codes, issued_tokens, saved_properties, requests, env, accounts, users, subscriptions, txn>>

PureNext ==
    \/ \E p \in PlanInputs, r \in RoleInputs : call_effective_capabilities(p, r)
    \/ \E s \in StatusInputs, p \in PlanInputs \ {"", None} : call_get_effective_plan(s, p)
    \/ \E r \in RoleInputs, s \in StatusInputs, p \in PlanInputs \ {"", None} :
            call_get_entitlements(r, s, p)
    \/ \E r \in RoleInputs \ {"", None}, s \in StatusInputs, p \in PlanInputs \ {"", None},
          cap \in CapInputs : call_authorize(r, s, p, cap)

PureInit == Init /\ env = "dev"

PureSpec == PureInit /\ [][PureNext]_vars

----------------------------------------------------------------------------
(* Claims about the pure decision functions, checked under PureSpec *)

\* the caller's subscription as the gate call of resp drew it
RespSubscription == Subscription(1, 1, resp.status, resp.plan_name, "manual")

\* C1: for every role, subscription (status, plan_name) and required capability the
\* gate allows the request exactly when the capability is in
\* effective_capabilities(effective_plan(subscription), role); a denial is 402 when
\* the subscription status is past_due and 403 otherwise.
C1_GateDecision ==
    resp.op = "authorize" =>
        LET granted == resp.capability \in
                effective_capabilities(get_effective_plan(RespSubscription), resp.role)
        IN  /\ (resp.result.code = 200) <=> granted
            /\ ~granted =>
                 resp.result.code = (IF resp.status = "past_due" THEN 402 ELSE 403)

C1_Witness ==
    /\ resp.op = "authorize"
    /\ resp.role = "owner" /\ resp.plan_name = "pro" /\ resp.status = "past_due"
    /\ resp.capability = EXPORT_CSV
    /\ resp.result.code = 402

\* the plan's capabilities as authz.has_capability answers, one capability at a time
plan_capabilities(plan) == {c \in CapInputs : has_capability(plan, c)}

\* the role's capabilities as listed in the role map, names compared in lower case
role_capabilities(role) ==
    IF Truthy(role) /\ lower(role) \in DOMAIN ROLE_CAPABILITIES
    THEN ROLE_CAPABILITIES[lower(role)] ELSE {}

\* C2: for every plan name and role name, defined or unknown,
\* effective_capabilities(plan, role) is plan_capabilities(plan) intersected with
\* role_capabilities(role), hence a subset of each.
C2_IntersectionLaw ==
    resp.op = "effective_capabilities" =>
        /\ resp.result = plan_capabilities(resp.plan) \cap role_capabilities(resp.role)
        /\ resp.result \subseteq plan_capabilities(resp.plan)
        /\ resp.result \subseteq role_capabilities(resp.role)

C2_Witness ==
    /\ resp.op = "effective_capabilities"
    /\ resp.plan = "free" /\ resp.role = "owner"
    /\ resp.result = FreeCaps
    /\ resp.result # role_capabilities(resp.role)

\* C3: effective_plan(subscription) is subscription.plan_name when the status is
\* active or trialing, and free when it is past_due, canceled or any other status.
C3_EffectivePlan ==
    resp.op = "get_effective_plan" =>
        resp.result = (IF resp.status \in {"active", "trialing"}
                       THEN resp.plan_name ELSE "free")

C3_Witness ==
    /\ resp.op = "get_effective_plan"
    /\ resp.status = "past_due" /\ resp.plan_name = "pro"
    /\ resp.result = "free"

ReadOnlyDenied == {ASSET_MANAGE, PROJECT_CREATE, EXPORT_CSV}

\* the role token read_only, in any letter case
IsReadOnly(role) == Truthy(role) /\ lower(role) = "read_only"

\* C4: for every plan and subscription status, role read_only is never granted
\* asset:manage, project:create or export:csv: they are absent from its entitlements
\* and the gate denies them.
C4_ReadOnlyNeverWrites ==
    /\ (resp.op = "get_entitlements" /\ IsReadOnly(resp.role)) =>
            resp.result \cap ReadOnlyDenied = {}
    /\ (resp.op = "authorize" /\ IsReadOnly(resp.role)
            /\ resp.capability \in ReadOnlyDenied) =>
            resp.result.code # 200

C4_Witness ==
    /\ resp.op = "get_entitlements"
    /\ resp.role = "read_only" /\ resp.plan_name = "enterprise" /\ resp.status = "active"
    /\ resp.result = {PROJECT_VIEW, ASSET_VIEW, SEARCH_BASIC, ANALYSIS_SINGLE_PROPERTY}

----------------------------------------------------------------------------
(* Claims about the subscription store, checked under LibSpec *)

AccountExists(account_id) == \E a \in accounts : a.id = account_id

StoredRows(rows, account_id) == {r \in rows : r.account_id = account_id}

\* C5: for every account, once set_status(account, s) has returned the next
\* get_subscription(account) reports status s, and once set_plan(account, p) has
\* returned it reports plan_name p, on whichever connection the read runs.
C5_NextReadSeesWrite ==
    /\ (resp.op = "update_subscription_status" /\ AccountExists(resp.account_id)) =>
            \A c \in Conns :
                get_subscription(View(c), resp.account_id).status = resp.status
    /\ (resp.op = "update_subscription_plan" /\ AccountExists(resp.account_id)) =>
            \A c \in Conns :
                get_subscription(View(c), resp.account_id).plan_name = resp.plan_name

\* C5 for the accounts that have a stored subscription row: the write is visible
\* to the next read on every connection.
C5_StoredRowReadSeesWrite ==
    /\ (resp.op = "update_subscription_status" /\ resp.prior # NoneObj) =>
            \A c \in Conns :
                get_subscription(View(c), resp.account_id).status = resp.status
    /\ (resp.op = "update_subscription_plan" /\ resp.prior # NoneObj) =>
            \A c \in Conns :
                get_subscription(View(c), resp.account_id).plan_name = resp.plan_name

\* C6: set_status(account, s) changes nothing but the status of that account's
\* subscription: its plan_name, its other columns and every other account's
\* subscription stay as they were, so a pro subscription set to past_due has
\* effective plan free while its plan_name still reads pro.
C6_SetStatusFrame ==
    [][resp'.op = "update_subscription_status" =>
        LET a == resp'.account_id
            after == get_subscription(subscriptions', a)
        IN  /\ \A r \in subscriptions : r.account_id # a => r \in subscriptions'
            /\ \A r \in StoredRows(subscriptions, a) :
                    \E r2 \in subscriptions' :
                        /\ r2.id = r.id /\ r2.account_id = r.account_id
                        /\ r2.plan_name = r.plan_name /\ r2.plan_id = r.plan_id
                        /\ r2.provider = r.provider
            /\ Cardinality(subscriptions') = Cardinality(subscriptions)
            /\ accounts' = accounts /\ users' = users
            /\ \A r \in StoredRows(subscriptions, a) :
                    (r.plan_name = "pro" /\ resp'.status = "past_due") =>
                        /\ after.plan_name = "pro"
                        /\ get_effective_plan(after) = "free"
    ]_vars

C6_Witness ==
    /\ resp.op = "update_subscription_status"
    /\ resp.status = "past_due"
    /\ resp.prior # NoneObj
    /\ resp.prior.plan_name = "pro" /\ resp.prior.status = "active"
    /\ get_subscription(subscriptions, resp.account_id).plan_name = "pro"
    /\ get_effective_plan(get_subscription(subscriptions, resp.account_id)) = "free"
    /\ \E r \in subscriptions :
            r.account_id # resp.account_id /\ r.plan_name = "pro" /\ r.status = "active"

\* C7: get_subscription(account) always returns a usable subscription: for an
\* account with no stored row it is status active, plan_name free, provider manual
\* for that account id, and it is never null.
C7_GetSubscriptionTotal ==
    resp.op = "get_subscription" =>
        /\ resp.result # NoneObj
        /\ resp.result.account_id = resp.account_id
        /\ StoredRows(subscriptions, resp.account_id) = {} =>
                resp.result = [id |-> 0, account_id |-> resp.account_id,
                               status |-> "active", plan_name |-> "free",
                               provider |-> "manual"]

C7_Witness ==
    /\ resp.op = "get_subscription"
    /\ AccountExists(resp.account_id)
    /\ StoredRows(subscriptions, resp.account_id) = {}
    /\ subscriptions # {}
    /\ resp.result.status = "active" /\ resp.result.plan_name = "free"

----------------------------------------------------------------------------
(* Claims about the HTTP API, checked under Spec *)

\* C9: authorization is recomputed from the stored role and subscription on every
\* request: a request with a valid token is decided on the values committed before
\* it starts, so asset:manage is granted exactly when the stored subscription is a
\* paid plan in status active or trialing and the stored role is a writing role.
C9_DecidedOnStoredValues ==
    (/\ resp.op = "request"
     /\ resp.capability = ASSET_MANAGE
     /\ resp.token.valid
     /\ \E u \in users : u.id = resp.token.sub) =>
        LET u == CHOOSE x \in users : x.id = resp.token.sub
            paid == \E r \in subscriptions :
                        /\ r.account_id = u.account_id
                        /\ r.plan_name \in {"pro", "team", "enterprise"}
                        /\ r.status \in {"active", "trialing"}
            writer == u.role \in {"owner", "admin", "member"}
        IN  /\ (resp.result.code = 200) <=> (paid /\ writer)
            /\ resp.result.code \in {200, 402, 403}
            /\ resp.result.code = 200 => resp.result.ctx.role = u.role

C9_Witness ==
    /\ resp.op = "request"
    /\ resp.capability = ASSET_MANAGE
    /\ resp.result.code = 403
    /\ \E u \in users :
            /\ u.id = resp.token.sub /\ u.role = "read_only"
            /\ \E r \in subscriptions :
                    r.account_id = u.account_id /\ r.plan_name = "pro" /\ r.status = "active"
    /\ \E u \in users, r \in subscriptions :
            u.id # resp.token.sub /\ r.account_id = u.account_id /\ r.status = "past_due"

\* C10: in every reachable state of the subscription store there is at most one
\* subscription row per account_id.
C10_OneSubscriptionPerAccount ==
    \A a \in AccountIds : Cardinality(StoredRows(subscriptions, a)) <= 1

C10_Witness ==
    /\ resp.op = "init_db"
    /\ Cardinality(accounts) = 2
    /\ \A a \in accounts : Cardinality(StoredRows(subscriptions, a.id)) = 1
    /\ \E r \in subscriptions : r.status = "canceled"

\* C11: from the moment POST /auth/register creates an account, a subscription row
\* for that account is stored, so every existing account has a row that set_plan
\* and set_status can update; right after registration it reads active and free.
C11_EveryAccountHasSubscription ==
    /\ \A a \in accounts : StoredRows(subscriptions, a.id) # {}
    /\ (resp.op = "register" /\ resp.result.code = 200) =>
            \E r \in StoredRows(subscriptions, resp.result.account_id) :
                r.status = "active" /\ r.plan_name = "free"

----------------------------------------------------------------------------
(* Further claims about the pure decision functions, checked under PureSpec *)

\* C12: the gate answers 402 (payment required) only for a capability in
\* plan_capabilities(subscription.plan_name) intersected with role_capabilities(role);
\* a capability outside that set is denied with 403, also while the status is
\* past_due.
C12_PaymentRequiredOnlyIfRecoverable ==
    resp.op = "authorize" =>
        LET paid_up == plan_capabilities(resp.plan_name) \cap role_capabilities(resp.role)
        IN  /\ resp.result.code = 402 => resp.capability \in paid_up
            /\ resp.capability \notin paid_up => resp.result.code = 403

----------------------------------------------------------------------------
(* backend/authz.py, backend/rbac.py: role and plan hierarchies *)

\* a call that returned value v
Returned(v) == [returned |-> v]

\* a call that raised exception e
Raised(e) == [raised |-> e]

ROLE_HIERARCHY == [r \in {"owner", "admin", "member", "read_only"} |->
    CASE r = "owner" -> 4 [] r = "admin" -> 3 [] r = "member" -> 2 [] r = "read_only" -> 1]

PLAN_HIERARCHY == [p \in {"free", "pro", "team", "enterprise"} |->
    CASE p = "free" -> 1 [] p = "pro" -> 2 [] p = "team" -> 3 [] p = "enterprise" -> 4]

\* authz.role_at_least: user_role.lower() with no guard, so None raises
role_at_least(user_role, required_role) ==
    IF user_role = None \/ required_role = None
    THEN Raised("AttributeError")
    ELSE LET user_level == dict_get(ROLE_HIERARCHY, lower(user_role), 0)
             required_level == dict_get(ROLE_HIERARCHY, lower(required_role), 0)
         IN  Returned(user_level >= required_level)

plan_at_least_reversed(account_plan, required_plan) ==
    IF account_plan = None \/ required_plan = None
    THEN Raised("AttributeError")
    ELSE LET account_level == dict_get(PLAN_HIERARCHY, lower(account_plan), 0)
             required_level == dict_get(PLAN_HIERARCHY, lower(required_plan), 0)
         IN  Returned(account_level <= required_level)

\* authz.plan_at_least: account_plan.lower() with no guard, so None raises
plan_at_least(account_plan, required_plan) ==
    IF account_plan = None \/ required_plan = None
    THEN Raised("AttributeError")
    ELSE LET account_level == dict_get(PLAN_HIERARCHY, lower(account_plan), 0)
             required_level == dict_get(PLAN_HIERARCHY, lower(required_plan), 0)
         IN  Returned(account_level >= required_level)

\* rbac.role_level
role_level(role) == dict_get(ROLE_HIERARCHY, IF Truthy(role) THEN lower(role) ELSE "", 0)

\* rbac.role_at_least
rbac_role_at_least(user_role, required_role) ==
    Returned(role_level(user_role) >= role_level(required_role))

call_role_at_least(user_role, required_role) ==
    /\ resp' = [op |-> "role_at_least", a |-> user_role, b |-> required_role,
                result |-> role_at_least(user_role, required_role)]
    /\ UNCHANGED <<trashed_properties, sqlite_sequence, auth_sessions, resume_codes, issued_tokens, saved_properties, requests, env, accounts, users, subscriptions, txn>>

call_plan_at_least(account_plan, required_plan) ==
    /\ resp' = [op |-> "plan_at_least", a |-> account_plan, b |-> required_plan,
                result |-> plan_at_least(account_plan, required_plan)]
    /\ UNCHANGED <<trashed_properties, sqlite_sequence, auth_sessions, resume_codes, issued_tokens, saved_properties, requests, env, accounts, users, subscriptions, txn>>

call_rbac_role_at_least(user_role, required_role) ==
    /\ resp' = [op |-> "rbac.role_at_least", a |-> user_role, b |-> required_role,
                result |-> rbac_role_at_least(user_role, required_role)]
    /\ UNCHANGED <<trashed_properties, sqlite_sequence, auth_sessions, resume_codes, issued_tokens, saved_properties, requests, env, accounts, users, subscriptions, txn>>

call_has_capability(account_plan, capability) ==
    /\ resp' = [op |-> "has_capability", plan |-> account_plan, capability |-> capability,
                result |-> Returned(has_capability(account_plan, capability))]
    /\ UNCHANGED <<trashed_properties, sqlite_sequence, auth_sessions, resume_codes, issued_tokens, saved_properties, requests, env, accounts, users, subscriptions, txn>>

call_has_effective_capability(plan, role, capability) ==
    /\ resp' = [op |-> "has_effective_capability", plan |-> plan, role |-> role,
                capability |-> capability,
                result |-> Returned(has_effective_capability(plan, role, capability))]
    /\ UNCHANGED <<trashed_properties, sqlite_sequence, auth_sessions, resume_codes, issued_tokens, saved_properties, requests, env, accounts, users, subscriptions, txn>>

\* the catalog and hierarchy lookups applied to drawn names
CatalogNext ==
    \/ \E a \in RoleInputs, b \in RoleInputs : call_role_at_least(a, b)
    \/ \E a \in PlanInputs, b \in PlanInputs : call_plan_at_least(a, b)
    \/ \E a \in RoleInputs, b \in RoleInputs : call_rbac_role_at_least(a, b)
    \/ \E p \in PlanInputs, cap \in CapInputs : call_has_capability(p, cap)
    \/ \E p \in PlanInputs, r \in RoleInputs, cap \in CapInputs :
            call_has_effective_capability(p, r, cap)

CatalogSpec == PureInit /\ [][CatalogNext]_vars

----------------------------------------------------------------------------
(* Claims about the hierarchies and the catalog lookups, checked under CatalogSpec *)

\* a plan name that is one of the defined tokens, in any letter case
DefinedPlan(plan) == plan # None /\ lower(plan) \in DOMAIN PLAN_HIERARCHY

\* a role name that is one of the defined tokens, in any letter case
DefinedRole(role) == role # None /\ lower(role) \in DOMAIN ROLE_HIERARCHY

\* C13: for a fixed role and two defined plans p1, p2 with plan_rank(p1) >= plan_rank(p2),
\* effective_capabilities(p1, role) contains effective_capabilities(p2, role), and the
\* plan-to-capability map itself does not decrease along free < pro < team < enterprise.
C13_MonotonicInPlanRank ==
    (/\ resp.op = "plan_at_least"
     /\ DefinedPlan(resp.a) /\ DefinedPlan(resp.b)
     /\ resp.result = Returned(TRUE)) =>
        /\ \A role \in RoleInputs :
                effective_capabilities(resp.b, role) \subseteq effective_capabilities(resp.a, role)
        /\ PLAN_CAPABILITIES[lower(resp.b)] \subseteq PLAN_CAPABILITIES[lower(resp.a)]

C13_Witness ==
    /\ resp.op = "plan_at_least"
    /\ resp.a = "pro" /\ resp.b = "free"
    /\ resp.result = Returned(TRUE)
    /\ effective_capabilities("free", "owner") # effective_capabilities("pro", "owner")
    /\ effective_capabilities("free", "owner") \subseteq effective_capabilities("pro", "owner")

\* C14: role_at_least(a, b) and plan_at_least(a, b) return false whenever a or b is not
\* a defined token, whichever of the two is the unknown one, and never raise.
C14_UnknownNeverAtLeast ==
    /\ (resp.op \in {"role_at_least", "rbac.role_at_least"}
            /\ (~DefinedRole(resp.a) \/ ~DefinedRole(resp.b))) =>
            resp.result = Returned(FALSE)
    /\ (resp.op = "plan_at_least" /\ (~DefinedPlan(resp.a) \/ ~DefinedPlan(resp.b))) =>
            resp.result = Returned(FALSE)

\* C14 where it holds: an unknown caller value never reaches a defined minimum.
C14_UnknownCallerBelowDefined ==
    /\ (resp.op \in {"role_at_least", "rbac.role_at_least"}
            /\ resp.a # None /\ ~DefinedRole(resp.a) /\ DefinedRole(resp.b)) =>
            resp.result = Returned(FALSE)
    /\ (resp.op = "plan_at_least"
            /\ resp.a # None /\ ~DefinedPlan(resp.a) /\ DefinedPlan(resp.b)) =>
            resp.result = Returned(FALSE)

\* a plan name with an entry in the plan map, in any letter case
KnownPlanKey(plan) == Truthy(plan) /\ lower(plan) \in DOMAIN PLAN_CAPABILITIES

\* a role name with an entry in the role map, in any letter case
KnownRoleKey(role) == Truthy(role) /\ lower(role) \in DOMAIN ROLE_CAPABILITIES

\* C15: for a plan name or role name outside the defined tokens the lookup is the empty
\* set, effective_capabilities is empty and every capability check answers False; a
\* capability outside the catalog is denied for every plan and role; none of these
\* calls raises.
C15_UnknownKeysFailClosed ==
    /\ resp.op = "has_capability" =>
            /\ resp.result \in {Returned(TRUE), Returned(FALSE)}
            /\ (~KnownPlanKey(resp.plan) \/ resp.capability \notin Capability) =>
                    resp.result = Returned(FALSE)
    /\ resp.op = "has_effective_capability" =>
            /\ resp.result \in {Returned(TRUE), Returned(FALSE)}
            /\ (~KnownPlanKey(resp.plan) \/ ~KnownRoleKey(resp.role)) =>
                    /\ effective_capabilities(resp.plan, resp.role) = {}
                    /\ resp.result = Returned(FALSE)
            /\ resp.capability \notin Capability => resp.result = Returned(FALSE)

C15_Witness ==
    /\ resp.op = "has_effective_capability"
    /\ resp.plan = "enterprise" /\ resp.role = "affiliate"
    /\ resp.capability = PROJECT_VIEW
    /\ resp.result = Returned(FALSE)

----------------------------------------------------------------------------
(* backend/tenant.py: tenant guardrails *)

\* longest row list handed to assert_rows_scoped
MaxRows == 2

\* a Python int
PyInt(n) == [int |-> n]

\* a call that returned value v after printing a warning
Warned(v) == [returned |-> v, warned |-> TRUE]

\* a column that the row does not have
Missing == [missing |-> TRUE]

IS_STAGING == env = "staging"

IS_PROD == env = "prod"

\* not account_id or account_id < 1, for an Optional[int]
invalid_account_id(account_id) ==
    account_id = NoneObj \/ account_id.int = 0 \/ account_id.int < 1

require_account_id(account_id) ==
    IF invalid_account_id(account_id)
    THEN IF IS_DEV
         THEN \* return account_id or 0
              Warned(IF account_id = NoneObj \/ account_id.int = 0 THEN PyInt(0) ELSE account_id)
         ELSE Raised("HTTPException(500)")
    ELSE Returned(account_id)

\* row.get("account_id") on a dict
row_get(row) == IF row.account_id = Missing THEN NoneObj ELSE row.account_id

\* row["account_id"] on a sqlite3.Row; a missing key raises IndexError
row_index(row) ==
    IF row.account_id = Missing THEN Raised("IndexError") ELSE Returned(row.account_id)

RECURSIVE scan_rows(_, _, _, _)
\* the for loop of assert_rows_scoped from index i on: the exception it raises, or
\* the mismatches it has collected
scan_rows(rows, account_id, i, mismatches) ==
    IF i > Len(rows) THEN Returned(mismatches)
    ELSE LET row == rows[i]
         IN  IF row.kind = "dict"
             THEN LET row_account_id == row_get(row)
                  IN  scan_rows(rows, account_id, i + 1,
                        IF row_account_id # NoneObj /\ row_account_id # account_id
                        THEN Append(mismatches, i) ELSE mismatches)
             ELSE LET got == row_index(row)
                  IN  IF got = Raised("IndexError")
                      THEN Raised("RuntimeError")
                      ELSE scan_rows(rows, account_id, i + 1,
                            IF got.returned # NoneObj /\ got.returned # account_id
                            THEN Append(mismatches, i) ELSE mismatches)

assert_rows_scoped_warn_only(rows, account_id) ==
    IF rows = <<>> THEN Returned(NoneObj)
    ELSE LET scanned == scan_rows(rows, account_id, 1, <<>>)
         IN  IF scanned = Raised("RuntimeError") THEN scanned
             ELSE IF scanned.returned # <<>> THEN Warned(NoneObj)
             ELSE Returned(NoneObj)

assert_rows_scoped(rows, account_id) ==
    IF rows = <<>> THEN Returned(NoneObj)
    ELSE LET scanned == scan_rows(rows, account_id, 1, <<>>)
         IN  IF scanned = Raised("RuntimeError") THEN scanned
             ELSE IF scanned.returned # <<>>
             THEN IF IS_DEV THEN Warned(NoneObj) ELSE Raised("HTTPException(500)")
             ELSE Returned(NoneObj)

\* assert_row_scoped catches KeyError and TypeError only, so the IndexError of a
\* sqlite3.Row leaves the function
assert_row_scoped(row, account_id) ==
    IF row = NoneObj THEN Returned(NoneObj)
    ELSE LET got == IF row.kind = "dict" THEN Returned(row_get(row)) ELSE row_index(row)
         IN  IF got = Raised("IndexError") THEN got
             ELSE IF got.returned # NoneObj /\ got.returned # account_id
             THEN IF IS_DEV THEN Warned(NoneObj) ELSE Raised("HTTPException(500)")
             ELSE Returned(NoneObj)

\* the tables execute_scoped looks for in the query text
tenant_tables == {"saved_properties", "trashed_properties", "scenarios", "account_memberships"}

\* a query text by what the substring tests see of it: its statement keyword, the
\* table it names, and where "account_id" occurs in it ("where": in a WHERE
\* predicate; "column": only in the column list; "absent": nowhere)
Sql(verb, table, account_id_text) ==
    [verb |-> verb, table |-> table, account_id_text |-> account_id_text]

\* word in sql.lower()
sql_contains(sql, word) ==
    CASE word \in {"select", "update", "delete"} -> sql.verb = word
      [] word = "account_id" -> sql.account_id_text # "absent"
      [] OTHER -> sql.table = word

\* the cursor of an executed query
Cursor(sql) == [executed |-> sql]

execute_scoped_unchecked(sql, account_id) ==
    LET required == require_account_id(account_id)
    IN  IF required = Raised("HTTPException(500)") THEN required
        ELSE Returned(Cursor(sql))

execute_scoped(sql, account_id) ==
    LET required == require_account_id(account_id)
        is_select == sql_contains(sql, "select")
        is_update == sql_contains(sql, "update")
        is_delete == sql_contains(sql, "delete")
        is_tenant_query == \E table \in tenant_tables : sql_contains(sql, table)
    IN  IF required = Raised("HTTPException(500)") THEN required
        ELSE IF is_tenant_query /\ (is_select \/ is_update \/ is_delete)
                /\ ~sql_contains(sql, "account_id")
        THEN IF IS_DEV THEN Warned(Cursor(sql)) ELSE Raised("HTTPException(500)")
        ELSE Returned(Cursor(sql))

\* account ids handed to the guards: missing, negative, zero and two real accounts
OptionalAccountIds == {NoneObj, PyInt(-1), PyInt(0), PyInt(7), PyInt(9)}

\* rows as a query can return them: a dict or a sqlite3.Row, with the account_id
\* column absent, NULL, or holding an account id
TenantRows ==
    {[kind |-> k, account_id |-> a] :
        k \in {"dict", "Row"}, a \in {Missing, NoneObj, PyInt(7), PyInt(9)}}

RowLists == UNION {[1..n -> TenantRows] : n \in 0..MaxRows}

SqlInputs ==
    {Sql(v, t, a) : v \in {"select", "update", "delete", "insert"},
                    t \in {"saved_properties", "scenarios", "assets", "plans"},
                    a \in {"where", "column", "absent"}}

call_require_account_id(account_id) ==
    /\ resp' = [op |-> "require_account_id", account_id |-> account_id,
                result |-> require_account_id(account_id)]
    /\ UNCHANGED <<trashed_properties, sqlite_sequence, auth_sessions, resume_codes, issued_tokens, saved_properties, requests, env, accounts, users, subscriptions, txn>>

call_assert_rows_scoped(rows, account_id) ==
    /\ resp' = [op |-> "assert_rows_scoped", rows |-> rows, account_id |-> account_id,
                result |-> assert_rows_scoped(rows, account_id)]
    /\ UNCHANGED <<trashed_properties, sqlite_sequence, auth_sessions, resume_codes, issued_tokens, saved_properties, requests, env, accounts, users, subscriptions, txn>>

call_assert_row_scoped(row, account_id) ==
    /\ resp' = [op |-> "assert_row_scoped", row |-> row, account_id |-> account_id,
                result |-> assert_row_scoped(row, account_id)]
    /\ UNCHANGED <<trashed_properties, sqlite_sequence, auth_sessions, resume_codes, issued_tokens, saved_properties, requests, env, accounts, users, subscriptions, txn>>

call_execute_scoped(sql, account_id) ==
    /\ resp' = [op |-> "execute_scoped", sql |-> sql, account_id |-> account_id,
                result |-> execute_scoped(sql, account_id)]
    /\ UNCHANGED <<trashed_properties, sqlite_sequence, auth_sessions, resume_codes, issued_tokens, saved_properties, requests, env, accounts, users, subscriptions, txn>>

\* the guards of tenant.py applied to drawn arguments, in each environment
TenantNext ==
    \/ \E a \in OptionalAccountIds : call_require_account_id(a)
    \/ \E rows \in RowLists : call_assert_rows_scoped(rows, PyInt(7))
    \/ \E row \in TenantRows \cup {NoneObj} : call_assert_row_scoped(row, PyInt(7))
    \/ \E sql \in SqlInputs, a \in OptionalAccountIds : call_execute_scoped(sql, a)

TenantSpec == Init /\ [][TenantNext]_vars

----------------------------------------------------------------------------
(* Claims about the tenant guardrails, checked under TenantSpec *)

\* the rows the call of resp was given
RespRows ==
    IF resp.op = "assert_rows_scoped" THEN {resp.rows[i] : i \in 1..Len(resp.rows)}
    ELSE IF resp.row = NoneObj THEN {} ELSE {resp.row}

\* the call returned rather than raised
ReturnedNormally(result) == "returned" \in DOMAIN result

C17_MissingFieldAlwaysFatal ==
    (resp.op \in {"assert_rows_scoped", "assert_row_scoped"}
        /\ \E row \in RespRows : row.account_id = Missing) =>
        ~ReturnedNormally(resp.result)

\* C17 where it holds: a sqlite3.Row without the column makes both guards raise.
C17_MissingColumnOfDatabaseRowFatal ==
    (resp.op \in {"assert_rows_scoped", "assert_row_scoped"}
        /\ \E row \in RespRows : row.account_id = Missing /\ row.kind = "Row") =>
        ~ReturnedNormally(resp.result)

\* C18: require_account_id(id) returns id unchanged when id >= 1; when id is missing
\* or below 1 it returns 0 in dev and raises in staging and prod.
C18_RequireAccountId ==
    resp.op = "require_account_id" =>
        IF resp.account_id # NoneObj /\ resp.account_id.int >= 1
        THEN resp.result = Returned(resp.account_id)
        ELSE IF IS_DEV
             THEN ReturnedNormally(resp.result) /\ resp.result.returned = PyInt(0)
             ELSE resp.result = Raised("HTTPException(500)")

\* the query of resp is a SELECT, UPDATE or DELETE on one of the tenant tables, sent
\* with a valid account id
GuardedQuery ==
    /\ resp.op = "execute_scoped"
    /\ ~invalid_account_id(resp.account_id)
    /\ resp.sql.verb \in {"select", "update", "delete"}
    /\ resp.sql.table \in tenant_tables

----------------------------------------------------------------------------
(* backend/authz.py: plan limits; backend/main.py: POST /property/save *)

\* PLAN_LIMITS, the numeric limit the model reads
PLAN_LIMITS ==
    [p \in {"free", "pro", "team", "enterprise"} |->
        [max_saved_deals |->
            CASE p = "free" -> 25 [] p = "pro" -> 250
              [] p = "team" -> 1000 [] p = "enterprise" -> 10000]]

\* PLAN_LIMITS.get(plan.lower(), PLAN_LIMITS["free"])
get_plan_limits(plan) == dict_get(PLAN_LIMITS, lower(plan), PLAN_LIMITS["free"])

get_plan_limit(plan, limit_name) == dict_get(get_plan_limits(plan), limit_name, 0)

\* None when the usage is below the limit, else the HTTPException raised
check_usage_against_limit(current_usage, plan, limit_name) ==
    IF current_usage >= get_plan_limit(plan, limit_name)
    THEN Raised("HTTPException(402)")
    ELSE Returned(NoneObj)

\* user and account are the fetched rows, or NoneObj
require_entitlement(user, account, min_role, min_plan) ==
    IF user = NoneObj THEN Raised("HTTPException(401)")
    ELSE IF account = NoneObj THEN Raised("HTTPException(500)")
    ELSE IF ~user.is_active THEN Raised("HTTPException(403)")
    ELSE LET role_ok == role_at_least(user.role, min_role)
             plan_ok == plan_at_least(account.plan, min_plan)
         IN  IF role_ok = Raised("AttributeError") THEN role_ok
             ELSE IF ~role_ok.returned THEN Raised("HTTPException(403)")
             ELSE IF plan_ok = Raised("AttributeError") THEN plan_ok
             ELSE IF ~plan_ok.returned THEN Raised("HTTPException(402)")
             ELSE Returned(NoneObj)

require_write_access(user, account) == require_entitlement(user, account, "member", "free")

\* SELECT COUNT(*) FROM saved_properties WHERE account_id = ?
count_saved(rows, account_id) == Cardinality({r \in rows : r.account_id = account_id})

\* SELECT ... WHERE id = ? and fetchone()
fetch_by_id(rows, id) ==
    IF \E r \in rows : r.id = id THEN CHOOSE r \in rows : r.id = id ELSE NoneObj

\* the rowid SQLite gives the next row of a table without AUTOINCREMENT: one more
\* than the largest rowid in the table
next_rowid(rows) ==
    IF rows = {} THEN 1
    ELSE (CHOOSE i \in {r.id : r \in rows} : \A r \in rows : r.id <= i) + 1

\* request bodies of POST /property/save
Payloads == {[property_name |-> "Test"]}

\* the first half of save_property, up to and including the limit check: every
\* read it makes is done and its connection closed before the insert begins
save_property_check(w, token, payload) ==
    LET auth == require_auth_context(users, subscriptions, token)
        gate == IF auth.code # 200 THEN auth ELSE check_capability(auth.ctx, ASSET_MANAGE)
        answer(r) ==
            /\ resp' = [op |-> "save_property", worker |-> w, result |-> r]
            /\ UNCHANGED <<requests>>
    IN  /\ requests[w] = Idle
        /\ UNCHANGED <<trashed_properties, sqlite_sequence, auth_sessions, resume_codes, issued_tokens, saved_properties, env, accounts, users, subscriptions, txn>>
        /\ IF gate.code # 200 THEN answer(Raised("HTTPException"))
           ELSE LET required == require_account_id(PyInt(gate.ctx.account_id))
                IN  IF required = Raised("HTTPException(500)") THEN answer(required)
                    ELSE LET account_id == required.returned.int
                             user_id == gate.ctx.user_id
                             account == fetch_by_id(accounts, account_id)
                             user == fetch_by_id(users, user_id)
                             access == require_write_access(user, account)
                             current_count == count_saved(saved_properties, account_id)
                             plan == IF account # NoneObj THEN account.plan ELSE "free"
                             usage == check_usage_against_limit(current_count, plan,
                                                                "max_saved_deals")
                         IN  IF ~ReturnedNormally(access) THEN answer(access)
                             ELSE IF ~ReturnedNormally(usage) THEN answer(usage)
                             ELSE /\ requests' = [requests EXCEPT ![w] =
                                        [pc |-> "insert", account_id |-> account_id,
                                         user_id |-> user_id,
                                         property_name |-> payload.property_name]]
                                  /\ resp' = [op |-> "save_property_checked", worker |-> w,
                                              result |-> usage]

save_property_insert_rechecked(w) ==
    LET account_id == requests[w].account_id
        account == fetch_by_id(accounts, account_id)
        usage == check_usage_against_limit(count_saved(saved_properties, account_id),
                                           account.plan, "max_saved_deals")
        saved_id == next_rowid(saved_properties)
    IN  /\ requests[w].pc = "insert"
        /\ saved_properties' =
                IF ReturnedNormally(usage)
                THEN saved_properties \cup
                        {[id |-> saved_id, account_id |-> account_id,
                          user_id |-> requests[w].user_id,
                          property_name |-> requests[w].property_name]}
                ELSE saved_properties
        /\ requests' = [requests EXCEPT ![w] = Idle]
        /\ resp' = [op |-> "save_property", worker |-> w,
                    result |-> IF ReturnedNormally(usage)
                               THEN Returned([status |-> "saved", id |-> saved_id])
                               ELSE usage]
        /\ UNCHANGED <<trashed_properties, sqlite_sequence, auth_sessions, resume_codes, issued_tokens, env, accounts, users, subscriptions, txn>>

\* the second half of save_property: INSERT INTO saved_properties, commit, answer
save_property_insert(w) ==
    LET saved_id == next_rowid(saved_properties)
    IN  /\ requests[w].pc = "insert"
        /\ saved_properties' = saved_properties \cup
                {[id |-> saved_id, account_id |-> requests[w].account_id,
                  user_id |-> requests[w].user_id,
                  property_name |-> requests[w].property_name]}
        /\ requests' = [requests EXCEPT ![w] = Idle]
        /\ resp' = [op |-> "save_property", worker |-> w,
                    result |-> Returned([status |-> "saved", id |-> saved_id])]
        /\ UNCHANGED <<trashed_properties, sqlite_sequence, auth_sessions, resume_codes, issued_tokens, env, accounts, users, subscriptions, txn>>

\* a database with one account whose owner may save: the account was registered,
\* the process restarted, and the billing helper update_subscription_plan raised the
\* subscription to pro, which leaves accounts.plan, the plan the limit is read from,
\* at free
SaveInit ==
    /\ env \in Envs
    /\ accounts = {[id |-> 1, plan |-> "free", owner_id |-> 1]}
    /\ users = {[id |-> 1, email |-> <<1, "lower">>, role |-> "owner",
                 account_id |-> 1, is_active |-> TRUE]}
    /\ subscriptions = {[id |-> 1, account_id |-> 1, plan_id |-> 0, status |-> "active",
                         plan_name |-> "pro", provider |-> "manual"]}
    /\ txn = [c \in Conns |-> NoTxn]
    /\ resp = [op |-> "start"]
    /\ saved_properties = {}
    /\ requests = [w \in Workers |-> Idle]
    /\ trashed_properties = {}
    /\ sqlite_sequence = [trashed_properties |-> 0]
    /\ auth_sessions = {}
    /\ resume_codes = {}
    /\ issued_tokens = {}

\* concurrent POST /property/save requests of the account's owner
SaveNext ==
    \/ \E w \in Workers, payload \in Payloads : save_property_check(w, Token(1), payload)
    \/ \E w \in Workers : save_property_insert(w)

SaveSpec == SaveInit /\ [][SaveNext]_vars

----------------------------------------------------------------------------
(* Claims about concurrent saves, checked under SaveSpec *)

\* the max_saved_deals limit of an account
SavedLimit(account_id) ==
    get_plan_limit(fetch_by_id(accounts, account_id).plan, "max_saved_deals")

\* C20: the limit check and the insert of save_property are separate steps: a
\* request that has passed the check inserts its row whatever the saved count has
\* become in the meantime, so two concurrent requests that both pass the check at
\* limit - 1 both insert and leave limit + 1 saved properties.
C20_InsertAfterCheckUnconditional ==
    [][\A w \in Workers :
        (requests[w] # Idle /\ requests'[w] = Idle) =>
            /\ resp'.result = Returned([status |-> "saved",
                                        id |-> Cardinality(saved_properties) + 1])
            /\ count_saved(saved_properties', requests[w].account_id)
                    = count_saved(saved_properties, requests[w].account_id) + 1
    ]_vars

C20_Witness ==
    /\ count_saved(saved_properties, 1) = SavedLimit(1) + 1
    /\ resp.op = "save_property"
    /\ ReturnedNormally(resp.result)
    /\ \A w \in Workers : requests[w] = Idle

----------------------------------------------------------------------------
(* Development endpoints and introspection, checked under AdminSpec *)

AdminOps == {"admin_set_plan", "admin_set_role", "admin_set_subscription_status"}

\* C22: when the environment is not dev, /admin/set_plan, /admin/set_role and
\* /admin/set_subscription_status answer 403 and leave the subscriptions, accounts
\* and users tables unchanged, whatever the request carries.
C22_AdminForbiddenOutsideDev ==
    [][(env # "dev" /\ resp'.op \in AdminOps)
          => /\ resp'.result.code = 403
             /\ UNCHANGED <<subscriptions, accounts, users>>]_vars

\* an admin request for an existing account's subscription was answered outside dev
C22_Witness ==
    /\ env # "dev"
    /\ resp.op = "admin_set_plan"
    /\ resp.plan \in PlanName
    /\ rowcount(subscriptions, resp.account_id) = 1
    /\ resp.result.code = 403

\* C23: /admin/set_plan and /admin/set_role require valid authentication even in
\* dev: a request that carries no valid token changes no subscription plan and no
\* user role.
C23_AdminRequiresValidToken ==
    [][(resp'.op \in {"admin_set_plan", "admin_set_role"}
            /\ require_auth_context(users, subscriptions, resp'.authorization).code # 200)
          => UNCHANGED <<subscriptions, accounts, users>>]_vars

\* C28: the plan and the capabilities /auth/capabilities returns for a caller are
\* the effective plan and the capability set the gate enforces for that caller in
\* the same store state.
C28_IntrospectionAgreesWithEnforcement ==
    (resp.op = "get_account_capabilities" /\ resp.result.code = 200)
        => LET auth == require_auth_context(users, subscriptions, resp.token)
           IN  /\ resp.result.plan = auth.ctx.effective_plan
               /\ resp.result.capabilities = auth.ctx.capabilities

----------------------------------------------------------------------------
(* backend/auth_context.py: the gate on a caller whose users row holds any role *)

\* what the users.role column (TEXT DEFAULT 'member', nullable) can hold
StoredRoles == UserRole \cup {"root", "", None}

\* require_capability(capability) for the caller whose users row holds
\* stored_role and whose account holds the given subscription
call_require_capability(stored_role, status, plan_name, capability) ==
    LET user_rows == {[id |-> 1, email |-> <<1, "lower">>, role |-> stored_role,
                       account_id |-> 1, is_active |-> TRUE]}
        sub_rows == {Subscription(1, 1, status, plan_name, "manual")}
        auth == require_auth_context(user_rows, sub_rows, Token(1))
    IN  /\ resp' = [op |-> "require_capability", stored_role |-> stored_role,
                    status |-> status, plan_name |-> plan_name,
                    capability |-> capability, auth |-> auth,
                    result |-> IF auth.code # 200 THEN auth
                               ELSE check_capability(auth.ctx, capability)]
        /\ UNCHANGED <<trashed_properties, sqlite_sequence, auth_sessions, resume_codes, issued_tokens, saved_properties, requests, env, accounts, users, subscriptions, txn>>

GateNext ==
    \E r \in StoredRoles, s \in {"active", "past_due"}, p \in {"free", "pro"},
       cap \in CapInputs : call_require_capability(r, s, p, cap)

GateSpec == PureInit /\ [][GateNext]_vars

\* C25: a caller whose stored role is missing, empty or not one of owner, admin,
\* member, read_only receives an empty capability set from require_auth_context
\* and is denied every capability-gated operation.
C25_MalformedRoleNoAccess ==
    (resp.op = "require_capability"
        /\ resp.stored_role \notin {"owner", "admin", "member", "read_only"})
        => /\ resp.auth.code = 200
           /\ resp.auth.ctx.capabilities = {}
           /\ resp.result.code # 200

\* supporting: a stored role that is present but not in the role catalog gets
\* the empty capability set and is denied
C25_UnknownStoredRoleNoAccess ==
    (resp.op = "require_capability" /\ resp.stored_role \in {"affiliate", "root"})
        => /\ resp.auth.ctx.capabilities = {}
           /\ resp.result.code # 200

----------------------------------------------------------------------------
(* backend/features.py against backend/entitlements.py, checked under AdminSpec *)

\* C26: in every reachable store state features.get_account_plan(account) equals
\* get_effective_plan(get_subscription(account)): the subscribed plan while the
\* subscription is active or trialing, free otherwise.
C26_FeaturePlanIsEffectivePlan ==
    resp.op = "get_account_plan"
        => resp.result = get_effective_plan(get_subscription(subscriptions, resp.account_id))

----------------------------------------------------------------------------
(* backend/main.py: /property/delete, /property/trash/restore and the two lists *)

MaxTrash == 2

\* what the write endpoints do before they touch saved or trashed rows: the
\* asset:manage gate, require_account_id and require_write_access; the account id
\* of the caller, or the exception raised
require_asset_manage(token) ==
    LET auth == require_auth_context(users, subscriptions, token)
        gate == IF auth.code # 200 THEN auth ELSE check_capability(auth.ctx, ASSET_MANAGE)
    IN  IF gate.code # 200 THEN Raised("HTTPException")
        ELSE LET required == require_account_id(PyInt(gate.ctx.account_id))
                 access == require_write_access(fetch_by_id(users, gate.ctx.user_id),
                                                fetch_by_id(accounts, gate.ctx.account_id))
             IN  IF required = Raised("HTTPException(500)") THEN required
                 ELSE IF ~ReturnedNormally(access) THEN access
                 ELSE Returned(required.returned.int)

require_row_owned_any_account(rows, row_id, account_id) ==
    LET hit == {r \in rows : r.id = row_id}
    IN  IF hit = {} THEN Raised("HTTPException(404)")
        ELSE Returned(CHOOSE r \in hit : TRUE)

\* SELECT * FROM {table} WHERE rowid = ? AND account_id = ?
require_row_owned(rows, row_id, account_id) ==
    LET hit == {r \in rows : r.id = row_id /\ r.account_id = account_id}
    IN  IF hit = {} THEN Raised("HTTPException(404)")
        ELSE Returned(CHOOSE r \in hit : TRUE)

\* the sqlite3.Row of a stored row as the tenant guards see it
as_Row(r) == [kind |-> "Row", account_id |-> PyInt(r.account_id)]

\* delete_property up to the check of the row: the reads are done on their own,
\* outside the transaction the DELETE opens
delete_property_select(w, token, row_id) ==
    LET account == require_asset_manage(token)
        row == require_row_owned(saved_properties, row_id, account.returned)
        scoped == assert_row_scoped(as_Row(row.returned), PyInt(account.returned))
        answer(r) ==
            /\ resp' = [op |-> "delete_property", worker |-> w, token |-> token,
                        id |-> row_id, result |-> r]
            /\ UNCHANGED requests
    IN  /\ requests[w] = Idle
        /\ sqlite_sequence.trashed_properties
              + Cardinality({v \in Workers : requests[v].pc = "delete"}) < MaxTrash
        /\ UNCHANGED <<trashed_properties, sqlite_sequence, auth_sessions, resume_codes, issued_tokens, saved_properties, env, accounts, users, subscriptions, txn>>
        /\ IF ~ReturnedNormally(account) THEN answer(account)
           ELSE IF row_id < 1 THEN answer(Raised("HTTPException(400)"))
           ELSE IF ~ReturnedNormally(row) THEN answer(row)
           ELSE IF ~ReturnedNormally(scoped) THEN answer(scoped)
           ELSE /\ requests' = [requests EXCEPT ![w] =
                        [pc |-> "delete", account_id |-> account.returned,
                         token |-> token, row_id |-> row_id, saved |-> row.returned]]
                /\ resp' = [op |-> "delete_property_selected", worker |-> w]

\* the transaction of delete_property: DELETE, INSERT into the trash, commit
delete_property_move(w) ==
    LET row_id == requests[w].row_id
        account_id == requests[w].account_id
        trash_id == sqlite_sequence.trashed_properties + 1
    IN  /\ requests[w].pc = "delete"
        /\ saved_properties' =
                {r \in saved_properties : ~(r.id = row_id /\ r.account_id = account_id)}
        /\ trashed_properties' = trashed_properties \cup
                {[trash_id |-> trash_id, saved_row_json |-> requests[w].saved,
                  account_id |-> account_id]}
        /\ sqlite_sequence' = [sqlite_sequence EXCEPT !.trashed_properties = trash_id]
        /\ requests' = [requests EXCEPT ![w] = Idle]
        /\ resp' = [op |-> "delete_property", worker |-> w, token |-> requests[w].token,
                    id |-> row_id,
                    result |-> Returned([status |-> "deleted", id |-> row_id,
                                         trash_id |-> trash_id])]
        /\ UNCHANGED <<auth_sessions, resume_codes, issued_tokens, env, accounts, users, subscriptions, txn>>

\* restore_from_trash up to the check of the trash row
restore_from_trash_select(w, token, trash_id) ==
    LET account == require_asset_manage(token)
        hit == {t \in trashed_properties :
                    t.trash_id = trash_id /\ t.account_id = account.returned}
        row == CHOOSE t \in hit : TRUE
        scoped == assert_row_scoped(as_Row(row), PyInt(account.returned))
        answer(r) ==
            /\ resp' = [op |-> "restore_from_trash", worker |-> w, token |-> token,
                        trash_id |-> trash_id, result |-> r]
            /\ UNCHANGED requests
    IN  /\ requests[w] = Idle
        /\ UNCHANGED <<trashed_properties, sqlite_sequence, auth_sessions, resume_codes, issued_tokens, saved_properties, env, accounts, users, subscriptions, txn>>
        /\ IF ~ReturnedNormally(account) THEN answer(account)
           ELSE IF trash_id < 1 THEN answer(Raised("HTTPException(400)"))
           ELSE IF hit = {} THEN answer(Raised("HTTPException(404)"))
           ELSE IF ~ReturnedNormally(scoped) THEN answer(scoped)
           ELSE /\ requests' = [requests EXCEPT ![w] =
                        [pc |-> "restore", account_id |-> account.returned,
                         token |-> token, trash_id |-> trash_id, row |-> row]]
                /\ resp' = [op |-> "restore_from_trash_selected", worker |-> w]

\* the transaction of restore_from_trash: INSERT the saved row again (user_id
\* NULL, a new rowid), DELETE the trash entry, commit
restore_from_trash_insert(w) ==
    LET saved == requests[w].row.saved_row_json
        trash_id == requests[w].trash_id
    IN  /\ requests[w].pc = "restore"
        /\ saved_properties' = saved_properties \cup
                {[id |-> next_rowid(saved_properties),
                  account_id |-> requests[w].account_id, user_id |-> 0,
                  property_name |-> saved.property_name]}
        /\ trashed_properties' = {t \in trashed_properties : t.trash_id # trash_id}
        /\ requests' = [requests EXCEPT ![w] = Idle]
        /\ resp' = [op |-> "restore_from_trash", worker |-> w,
                    token |-> requests[w].token, trash_id |-> trash_id,
                    result |-> Returned([status |-> "restored", trash_id |-> trash_id])]
        /\ UNCHANGED <<sqlite_sequence, auth_sessions, resume_codes, issued_tokens, env, accounts, users, subscriptions, txn>>

RECURSIVE order_by_desc(_)
\* ORDER BY key DESC over rows paired with their key (rowid or trash_id)
order_by_desc(keyed) ==
    IF keyed = {} THEN <<>>
    ELSE LET top == CHOOSE r \in keyed : \A q \in keyed : q.key <= r.key
         IN  <<top.row>> \o order_by_desc(keyed \ {top})

\* GET /property/saved and GET /property/trash: keyed holds the rows of the table
\* with their ORDER BY key
list_rows(op, token, keyed) ==
    LET auth == require_auth_context(users, subscriptions, token)
        required == require_account_id(PyInt(auth.ctx.account_id))
        account_id == required.returned.int
        rows == order_by_desc({k \in keyed : k.row.account_id = account_id})
        scoped == assert_rows_scoped([i \in 1..Len(rows) |-> as_Row(rows[i])],
                                     PyInt(account_id))
        answer(r) == resp' = [op |-> op, token |-> token, result |-> r]
    IN  /\ UNCHANGED <<trashed_properties, sqlite_sequence, auth_sessions, resume_codes, issued_tokens, saved_properties, requests, env, accounts, users, subscriptions, txn>>
        /\ IF auth.code # 200 THEN answer(Raised("HTTPException"))
           ELSE IF required = Raised("HTTPException(500)") THEN answer(required)
           ELSE IF ~ReturnedNormally(scoped) THEN answer(scoped)
           ELSE answer(Returned(rows))

list_saved_properties(token) ==
    list_rows("list_saved_properties", token,
              {[key |-> r.id, row |-> r] : r \in saved_properties})

get_trash(token) ==
    list_rows("get_trash", token,
              {[key |-> t.trash_id, row |-> t] : t \in trashed_properties})

\* one account whose requests are served one at a time: accounts.plan, the plan
\* the limit is read from, is free; the subscription is free (as registered and
\* backfilled) or pro (raised by update_subscription_plan)
SeqInit ==
    /\ env \in Envs
    /\ accounts = {[id |-> 1, plan |-> "free", owner_id |-> 1]}
    /\ users = {[id |-> 1, email |-> <<1, "lower">>, role |-> "owner",
                 account_id |-> 1, is_active |-> TRUE]}
    /\ \E plan_name \in StorePlans :
            subscriptions = {[id |-> 1, account_id |-> 1, plan_id |-> 0,
                              status |-> "active", plan_name |-> plan_name,
                              provider |-> "manual"]}
    /\ txn = [c \in Conns |-> NoTxn]
    /\ resp = [op |-> "start"]
    /\ saved_properties = {}
    /\ requests = [w \in Workers |-> Idle]
    /\ trashed_properties = {}
    /\ sqlite_sequence = [trashed_properties |-> 0]
    /\ auth_sessions = {}
    /\ resume_codes = {}
    /\ issued_tokens = {}

\* save, delete and restore requests of the owner, each finished before the next
\* begins
SeqNext ==
    \/ \E payload \in Payloads : save_property_check(1, Token(1), payload)
    \/ save_property_insert(1)
    \/ \E row_id \in {1} : delete_property_select(1, Token(1), row_id)
    \/ delete_property_move(1)
    \/ \E trash_id \in 1..MaxTrash : restore_from_trash_select(1, Token(1), trash_id)
    \/ restore_from_trash_insert(1)

SeqSpec == SeqInit /\ [][SeqNext]_vars

----------------------------------------------------------------------------
(* Claims about the saved-deal limit, checked under SeqSpec *)

\* C24: an owner of a free-plan account can save one property after another until
\* the account holds 25, each of those saves accepted, and the next save is
\* rejected with 402 without inserting a row.
C24_FreeOwnerSavesUpToLimit ==
    [][(/\ fetch_by_id(accounts, 1).plan = "free"
        /\ get_effective_plan(get_subscription(subscriptions, 1)) = "free"
        /\ requests[1] = Idle
        /\ resp'.op \in {"save_property", "save_property_checked"})
          => IF count_saved(saved_properties, 1) < 25
             THEN resp'.op = "save_property_checked"
             ELSE /\ resp'.result = Raised("HTTPException(402)")
                  /\ UNCHANGED saved_properties]_vars

\* C29: with requests served one at a time and the plan unchanged, the number of
\* saved properties of an account never exceeds the max_saved_deals of its plan.
C29_SavedNeverExceedsLimit ==
    \A a \in accounts : count_saved(saved_properties, a.id) <= SavedLimit(a.id)

----------------------------------------------------------------------------
(* Two accounts deleting, restoring and listing concurrently *)

\* accounts A (id 1) and B (id 2) with their owners; A's subscription is pro, B's
\* is free or pro; each account owns one saved property; the environment is dev
\* or prod (these handlers take the same branches in staging as in prod)
TrashInit ==
    /\ env \in {"dev", "prod"}
    /\ accounts = {[id |-> a, plan |-> "pro", owner_id |-> a] : a \in 1..2}
    /\ users = {[id |-> u, email |-> <<u, "lower">>, role |-> "owner",
                 account_id |-> u, is_active |-> TRUE] : u \in 1..2}
    /\ \E plan_name \in StorePlans :
            subscriptions =
                {[id |-> 1, account_id |-> 1, plan_id |-> 0, status |-> "active",
                  plan_name |-> "pro", provider |-> "manual"],
                 [id |-> 2, account_id |-> 2, plan_id |-> 0, status |-> "active",
                  plan_name |-> plan_name, provider |-> "manual"]}
    /\ txn = [c \in Conns |-> NoTxn]
    /\ resp = [op |-> "start"]
    /\ saved_properties =
            {[id |-> a, account_id |-> a, user_id |-> a,
              property_name |-> IF a = 1 THEN "Test A" ELSE "Test B"] : a \in 1..2}
    /\ requests = [w \in Workers |-> Idle]
    /\ trashed_properties = {}
    /\ sqlite_sequence = [trashed_properties |-> 0]
    /\ auth_sessions = {}
    /\ resume_codes = {}
    /\ issued_tokens = {}

\* the workers serving the two accounts: two requests in flight at a time
TrashWorkers == {1, 2}

TrashNext ==
    \/ \E w \in TrashWorkers, u \in 1..2, row_id \in 1..2 :
            delete_property_select(w, Token(u), row_id)
    \/ \E w \in TrashWorkers : delete_property_move(w)
    \/ \E w \in TrashWorkers, u \in 1..2, trash_id \in 1..MaxTrash :
            restore_from_trash_select(w, Token(u), trash_id)
    \/ \E w \in TrashWorkers : restore_from_trash_insert(w)
    \/ \E u \in 1..2 : list_saved_properties(Token(u))
    \/ \E u \in 1..2 : get_trash(Token(u))

TrashSpec == TrashInit /\ [][TrashNext]_vars

----------------------------------------------------------------------------
(* Claims about tenant isolation and the trash, checked under TrashSpec *)

\* the account a token authenticates for
TokenAccount(token) == fetch_by_id(users, token.sub).account_id

\* the rows of a table that belong to other accounts than account_id
RowsOfOthers(rows, account_id) == {r \in rows : r.account_id # account_id}

\* a delete or restore request was answered in this step, and it names a saved
\* row or a trash entry that another account owns
CrossTenantAnswered ==
    /\ resp'.op \in {"delete_property", "restore_from_trash"}
    /\ requests[resp'.worker] = Idle
    /\ IF resp'.op = "delete_property"
       THEN \E r \in saved_properties :
                r.id = resp'.id /\ r.account_id # TokenAccount(resp'.token)
       ELSE \E t \in trashed_properties :
                t.trash_id = resp'.trash_id /\ t.account_id # TokenAccount(resp'.token)

\* no step of a request touches a row of another account, and no request gets
\* past its checks with a row of another account
OtherAccountsUntouched ==
    \A w \in Workers :
        /\ (requests[w].pc \in {"delete", "restore"} /\ requests'[w] = Idle)
              => /\ RowsOfOthers(saved_properties', requests[w].account_id)
                        = RowsOfOthers(saved_properties, requests[w].account_id)
                 /\ RowsOfOthers(trashed_properties', requests[w].account_id)
                        = RowsOfOthers(trashed_properties, requests[w].account_id)
        /\ (requests[w] = Idle /\ requests'[w].pc = "delete")
              => requests'[w].saved.account_id = TokenAccount(requests'[w].token)
        /\ (requests[w] = Idle /\ requests'[w].pc = "restore")
              => requests'[w].row.account_id = TokenAccount(requests'[w].token)

\* the saved-list and trash-list of a caller hold rows of the caller's account only
ListsAreScoped ==
    (resp'.op \in {"list_saved_properties", "get_trash"} /\ ReturnedNormally(resp'.result))
        => \A i \in 1..Len(resp'.result.returned) :
                resp'.result.returned[i].account_id = TokenAccount(resp'.token)

C30_EachPropertyExactlyOnce ==
    \A name \in {"Test A", "Test B"} :
        Cardinality({r \in saved_properties : r.property_name = name})
            + Cardinality({t \in trashed_properties :
                                t.saved_row_json.property_name = name}) = 1

----------------------------------------------------------------------------
(* backend/main.py: refresh-token sessions and resume codes *)

MaxCodes == 2

MaxTokens == 4

\* generate_refresh_token() and hash_token: a token no row has held before, named
\* by a number larger than every hash stored
new_refresh_token_hash ==
    LET stored == {s.refresh_token_hash : s \in auth_sessions}
                    \cup {c.refresh_token_hash : c \in resume_codes}
    IN  (CHOOSE h \in stored : \A g \in stored : g <= h) + 1

\* POST /auth/resume/request with a valid bearer token of the session
request_resume_code(session_id) ==
    LET session == fetch_by_id(auth_sessions, session_id)
        code == Cardinality(resume_codes) + 1
        answer(r) == resp' = [op |-> "request_resume_code", session_id |-> session_id,
                              result |-> r]
    IN  /\ code <= MaxCodes
        /\ UNCHANGED <<trashed_properties, sqlite_sequence, auth_sessions, issued_tokens, saved_properties, requests, env, accounts, users, subscriptions, txn>>
        /\ IF session = NoneObj \/ session.revoked \/ session.expired
           THEN answer(HTTPException(401)) /\ UNCHANGED resume_codes
           ELSE /\ resume_codes' = resume_codes \cup
                        {[code |-> code, session_id |-> session_id,
                          refresh_token_hash |-> session.refresh_token_hash,
                          used |-> FALSE, expired |-> FALSE]}
                /\ answer([code |-> 200, resume_code |-> code])

\* POST /auth/refresh by the client that holds the session's current refresh token
refresh_token(session_id) ==
    LET session == fetch_by_id(auth_sessions, session_id)
        answer(r) == resp' = [op |-> "refresh_token", session_id |-> session_id,
                              result |-> r]
    IN  /\ new_refresh_token_hash <= MaxTokens
        /\ UNCHANGED <<trashed_properties, sqlite_sequence, resume_codes, issued_tokens, saved_properties, requests, env, accounts, users, subscriptions, txn>>
        /\ IF session = NoneObj \/ session.revoked \/ session.expired
           THEN answer(HTTPException(401)) /\ UNCHANGED auth_sessions
           ELSE /\ auth_sessions' =
                    {IF s.id = session_id
                     THEN [s EXCEPT !.refresh_token_hash = new_refresh_token_hash]
                     ELSE s : s \in auth_sessions}
                /\ answer([code |-> 200, refresh_token_hash |-> new_refresh_token_hash])

\* POST /auth/logout
logout(session_id) ==
    /\ auth_sessions' = {IF s.id = session_id THEN [s EXCEPT !.revoked = TRUE] ELSE s
                            : s \in auth_sessions}
    /\ resp' = [op |-> "logout", session_id |-> session_id, result |-> [code |-> 200]]
    /\ UNCHANGED <<trashed_properties, sqlite_sequence, resume_codes, issued_tokens, saved_properties, requests, env, accounts, users, subscriptions, txn>>

\* datetime.utcnow() passes the expires_at of a session or of a resume code
utcnow_passes(table, key) ==
    /\ auth_sessions' = IF table # "auth_sessions" THEN auth_sessions
                        ELSE {IF s.id = key THEN [s EXCEPT !.expired = TRUE] ELSE s
                                : s \in auth_sessions}
    /\ resume_codes' = IF table # "resume_codes" THEN resume_codes
                       ELSE {IF c.code = key THEN [c EXCEPT !.expired = TRUE] ELSE c
                                : c \in resume_codes}
    /\ resp' = [op |-> "utcnow_passes", table |-> table, key |-> key]
    /\ UNCHANGED <<trashed_properties, sqlite_sequence, issued_tokens, saved_properties, requests, env, accounts, users, subscriptions, txn>>

\* resume_session, first read: the code record and its used_at and expires_at
resume_session_lookup(w, resume_code) ==
    LET hit == {c \in resume_codes : c.code = resume_code}
        code_dict == CHOOSE c \in hit : TRUE
        answer(r) ==
            /\ resp' = [op |-> "resume_session", worker |-> w,
                        resume_code |-> resume_code, result |-> r]
            /\ UNCHANGED requests
    IN  /\ requests[w] = Idle
        /\ UNCHANGED <<trashed_properties, sqlite_sequence, auth_sessions, resume_codes, issued_tokens, saved_properties, env, accounts, users, subscriptions, txn>>
        /\ IF hit = {} THEN answer(HTTPException(400))
           ELSE IF code_dict.used THEN answer(HTTPException(400))
           ELSE IF code_dict.expired THEN answer(HTTPException(400))
           ELSE /\ requests' = [requests EXCEPT ![w] = [pc |-> "mark", code_dict |-> code_dict]]
                /\ resp' = [op |-> "resume_session_lookup", worker |-> w]

\* UPDATE resume_codes SET used_at = ? WHERE code = ?, and commit
resume_session_mark(w) ==
    /\ requests[w].pc = "mark"
    /\ resume_codes' = {IF c.code = requests[w].code_dict.code
                        THEN [c EXCEPT !.used = TRUE] ELSE c : c \in resume_codes}
    /\ requests' = [requests EXCEPT ![w].pc = "session"]
    /\ resp' = [op |-> "resume_session_mark", worker |-> w]
    /\ UNCHANGED <<trashed_properties, sqlite_sequence, auth_sessions, issued_tokens, saved_properties, env, accounts, users, subscriptions, txn>>

\* resume_session, second read: the session, its revoked_at, expires_at and
\* refresh_token_hash, and the user
resume_session_read(w) ==
    LET code_dict == requests[w].code_dict
        session == fetch_by_id(auth_sessions, code_dict.session_id)
        answer(r) ==
            /\ resp' = [op |-> "resume_session", worker |-> w,
                        resume_code |-> code_dict.code, result |-> r]
            /\ requests' = [requests EXCEPT ![w] = Idle]
    IN  /\ requests[w].pc = "session"
        /\ UNCHANGED <<trashed_properties, sqlite_sequence, auth_sessions, resume_codes, issued_tokens, saved_properties, env, accounts, users, subscriptions, txn>>
        /\ IF session = NoneObj THEN answer(HTTPException(401))
           ELSE IF session.revoked THEN answer(HTTPException(401))
           ELSE IF session.expired THEN answer(HTTPException(401))
           ELSE IF code_dict.refresh_token_hash # session.refresh_token_hash
           THEN answer(HTTPException(401))
           ELSE IF fetch_by_id(users, session.user_id) = NoneObj
           THEN answer(HTTPException(401))
           ELSE /\ requests' = [requests EXCEPT ![w].pc = "rotate"]
                /\ resp' = [op |-> "resume_session_read", worker |-> w]

\* UPDATE auth_sessions SET refresh_token_hash = ?, commit, and the token response
resume_session_rotate(w) ==
    LET code_dict == requests[w].code_dict
        issued == [resume_code |-> code_dict.code, session_id |-> code_dict.session_id,
                   refresh_token_hash |-> new_refresh_token_hash]
    IN  /\ requests[w].pc = "rotate"
        /\ new_refresh_token_hash <= MaxTokens
        /\ auth_sessions' =
                {IF s.id = code_dict.session_id
                 THEN [s EXCEPT !.refresh_token_hash = new_refresh_token_hash]
                 ELSE s : s \in auth_sessions}
        /\ issued_tokens' = issued_tokens \cup {issued}
        /\ requests' = [requests EXCEPT ![w] = Idle]
        /\ resp' = [op |-> "resume_session", worker |-> w,
                    resume_code |-> code_dict.code,
                    result |-> [code |-> 200, refresh_token_hash |-> new_refresh_token_hash]]
        /\ UNCHANGED <<trashed_properties, sqlite_sequence, resume_codes, saved_properties, env, accounts, users, subscriptions, txn>>

\* one user logged in: login has inserted the session with its first refresh token
ResumeInit ==
    /\ env = "prod"
    /\ accounts = {[id |-> 1, plan |-> "free", owner_id |-> 1]}
    /\ users = {[id |-> 1, email |-> <<1, "lower">>, role |-> "owner",
                 account_id |-> 1, is_active |-> TRUE]}
    /\ subscriptions = {}
    /\ txn = [c \in Conns |-> NoTxn]
    /\ resp = [op |-> "start"]
    /\ saved_properties = {}
    /\ requests = [w \in Workers |-> Idle]
    /\ trashed_properties = {}
    /\ sqlite_sequence = [trashed_properties |-> 0]
    /\ auth_sessions = {[id |-> 1, user_id |-> 1, account_id |-> 1,
                         refresh_token_hash |-> 1, revoked |-> FALSE, expired |-> FALSE]}
    /\ resume_codes = {}
    /\ issued_tokens = {}

ResumeNext ==
    \/ request_resume_code(1)
    \/ refresh_token(1)
    \/ logout(1)
    \/ utcnow_passes("auth_sessions", 1)
    \/ \E c \in 1..MaxCodes : utcnow_passes("resume_codes", c)
    \/ \E w \in Workers, c \in 1..MaxCodes : resume_session_lookup(w, c)
    \/ \E w \in Workers : resume_session_mark(w)
    \/ \E w \in Workers : resume_session_read(w)
    \/ \E w \in Workers : resume_session_rotate(w)

ResumeSpec == ResumeInit /\ [][ResumeNext]_vars

----------------------------------------------------------------------------
(* Claims about resume codes, checked under ResumeSpec *)

\* C27: a resume code is redeemed at most once: once one /auth/resume call with a
\* code has issued tokens, no other call with the same code, later or concurrent,
\* issues tokens.
C27_RedeemedAtMostOnce ==
    \A i, j \in issued_tokens : i.resume_code = j.resume_code => i = j

\* supporting: a call that starts after its code was used, or whose session is
\* found revoked, expired or rotated when the call reads it, issues no tokens
C27_RefusedWhenFoundStale ==
    [][\A w \in Workers :
        /\ (requests[w] = Idle /\ requests'[w] # Idle /\ requests'[w].pc = "mark")
              => ~requests'[w].code_dict.used /\ ~requests'[w].code_dict.expired
        /\ (requests[w].pc = "session" /\ requests'[w].pc = "rotate")
              => LET session == fetch_by_id(auth_sessions, requests[w].code_dict.session_id)
                 IN  /\ ~session.revoked /\ ~session.expired
                     /\ session.refresh_token_hash
                            = requests[w].code_dict.refresh_token_hash]_vars

============================================================================
